---------------------------- MODULE Spec2Model ----------------------------
(***************************************************************************)
(* RTP-over-SRT receiver (src/RTP-over-SRT/RTP-over-SRT.cpp).              *)
(*                                                                         *)
(* Three contexts run concurrently once the pipeline is PLAYING:           *)
(*   - the main thread: main(), and _bus_watch dispatched by the loop;     *)
(*   - the source: srtsrc feeding the `queue` of line 258;                 *)
(*   - the streaming thread of that queue, which runs the demultiplexer's  *)
(*     chain function and, inside it, _request_pt_map_cb,                  *)
(*     _new_payload_type_cb and the idle probes _link_cb /                 *)
(*     _link_gstdepay_cb.                                                  *)
(* Strings are sequences of one-character strings; an optional string      *)
(* (a gchar* that may be NULL) is a tuple of zero or one string.           *)
(***************************************************************************)
EXTENDS Integers, Sequences, FiniteSets, TLC

(* ------------------------------ bounds -------------------------------- *)
\* packets the source produces in one run
MaxPackets == 3
\* capacity of the queue between the source and the demultiplexer
MaxQueue == 2
\* positional command-line values
MaxArgs == 2
\* non-terminal bus messages posted in one run
MaxOther == 1
\* length of a user / resource string in StreamIdSpec
MaxStrLen == 2

(* ------------------------- program constants -------------------------- *)
PT_H264 == 96
PT_XGST == 99
\* the value main returns on every startup error
EXIT_FAILURE_CODE == -1
EXIT_OK == 0

\* payload types neither callback names (the else branches)
UnmappedTypes == {97}
PayloadTypes == {PT_H264, PT_XGST} \cup UnmappedTypes

(* ------------------------------ strings ------------------------------- *)
NULL == << >>
Some(s) == << s >>
IsNull(o) == o = NULL
Val(o) == o[1]

SRT_PREFIX == << "s", "r", "t", ":", "/", "/" >>
GoodUri == SRT_PREFIX \o << "h" >>
BareSrtUri == SRT_PREFIX
OtherSchemeUri == << "u", "d", "p", ":", "/", "/", "h" >>
ShortUri == << "s", "r", "t" >>
PositionalValues == {GoodUri, BareSrtUri, OtherSchemeUri, ShortUri}

\* g_str_has_prefix
g_str_has_prefix(str, prefix) ==
    /\ Len(str) >= Len(prefix)
    /\ SubSeq(str, 1, Len(prefix)) = prefix

RECURSIVE SeqsUpTo(_, _)
SeqsUpTo(S, n) ==
    IF n = 0 THEN { << >> }
    ELSE LET shorter == SeqsUpTo(S, n - 1)
         IN  shorter \cup { Append(s, x) : s \in shorter, x \in S }

(* --------------------------- build_streamid --------------------------- *)
\* faulty variant: the "," emitted as soon as one field is present
StreamIdSeparator_Either(u, r) ==
    IF ~IsNull(u) \/ ~IsNull(r) THEN << "," >> ELSE << >>

\* the "," of line 105 is emitted only when both fields are present
StreamIdSeparator(u, r) ==
    IF ~IsNull(u) /\ ~IsNull(r) THEN << "," >> ELSE << >>

U_Tag(u) == IF ~IsNull(u) THEN Some(<< "u", "=" >> \o Val(u)) ELSE NULL
R_Tag(r) == IF ~IsNull(r) THEN Some(<< "r", "=" >> \o Val(r)) ELSE NULL

build_streamid(u, r) ==
    LET u_tag == U_Tag(u)
        r_tag == R_Tag(r)
    IN  IF ~IsNull(u) \/ ~IsNull(r)
        THEN Some(<< "#", "!", ":", ":" >>
                  \o (IF ~IsNull(u_tag) THEN Val(u_tag) ELSE << >>)
                  \o StreamIdSeparator(u, r)
                  \o (IF ~IsNull(r_tag) THEN Val(r_tag) ELSE << >>))
        ELSE NULL

(* ------------------------- resolver / attacher ------------------------ *)
\* faulty variant: the else branch hands out caps as well
_request_pt_map_cb_AnyType(pt) ==
    IF pt = PT_XGST THEN Some("X-GST") ELSE Some("H264")

\* _request_pt_map_cb: the caps for a payload type, NULL when unmapped
_request_pt_map_cb(pt) ==
    IF pt = PT_H264 THEN Some("H264")
    ELSE IF pt = PT_XGST THEN Some("X-GST")
    ELSE NULL

\* faulty variant: the two callbacks are installed the other way round
_new_payload_type_cb_Swapped(pt) ==
    IF pt = PT_H264 THEN "_link_gstdepay_cb"
    ELSE IF pt = PT_XGST THEN "_link_cb"
    ELSE "none"

\* _new_payload_type_cb: the idle probe it installs on the new pad
_new_payload_type_cb(pt) ==
    IF pt = PT_H264 THEN "_link_cb"
    ELSE IF pt = PT_XGST THEN "_link_gstdepay_cb"
    ELSE "none"

\* faulty variant: the watch removes itself on a message of the default case
_bus_watch_RemovedOnOther(type) ==
    [quit |-> type \in {"EOS", "ERROR"},
     ret |-> IF type \in {"EOS", "ERROR"} THEN "G_SOURCE_CONTINUE"
             ELSE "G_SOURCE_REMOVE"]

\* _bus_watch: whether it calls g_main_loop_quit, and what it returns
_bus_watch(type) ==
    [quit |-> type \in {"EOS", "ERROR"}, ret |-> "G_SOURCE_CONTINUE"]

\* _parse_rest_arg_cb on one positional value, options.uri being uri
_parse_rest_arg_cb(uri, value) ==
    IF ~IsNull(uri) THEN [ok |-> FALSE, uri |-> uri]
    ELSE IF ~g_str_has_prefix(value, SRT_PREFIX) THEN [ok |-> FALSE, uri |-> uri]
    ELSE [ok |-> TRUE, uri |-> Some(value)]

\* g_option_context_parse: every positional value goes through the callback,
\* the first FALSE ends the parse; an unknown option fails it as well
RECURSIVE ParsePositionals(_, _)
ParsePositionals(uri, args) ==
    IF args = << >> THEN [ok |-> TRUE, uri |-> uri]
    ELSE LET r == _parse_rest_arg_cb(uri, Head(args))
         IN  IF r.ok THEN ParsePositionals(r.uri, Tail(args)) ELSE r

g_option_context_parse(uri, args, bad) ==
    LET r == ParsePositionals(uri, args)
    IN  [ok |-> r.ok /\ ~bad, uri |-> r.uri]

\* faulty variant: && in place of || in the test of line 311
NeedsUsage_And(h, uri) == h /\ IsNull(uri)

\* line 311: the test that sends main to the usage text
NeedsUsage(h, uri) == h \/ IsNull(uri)

VARIABLES
    argv,        \* the positional values of the command line, in order
    help,        \* --help was given
    badOption,   \* the command line holds something g_option_context_parse rejects
    buildOk,     \* gst_parse_launch of line 258 returns a pipeline
    options,     \* the static struct options: uri, user, resource
    streamid,    \* main's streamid
    mainPc,      \* where main is
    exitCode,    \* main's return value, meaningful once mainPc = "exited"
    pipeline,    \* app.pipeline: "NULL", "built", "released"
    gstState,    \* the pipeline's GStreamer state: "NULL" or "PLAYING"
    loopQuit,    \* g_main_loop_quit was called on app.loop
    busWatch,    \* _bus_watch is installed on the bus
    bus,         \* messages posted on the pipeline's bus, not yet dispatched
    otherPosted, \* non-terminal messages posted so far
    srcq,        \* the queue between srtsrc and rtpptdemux
    srcDone,     \* srtsrc has ended (end of stream or error)
    nextId,      \* id of the next packet the source produces
    dpc,         \* where the streaming thread is
    cur,         \* the packet the streaming thread is handling
    portCount,   \* demultiplexer source pads created, per payload type
    portPeer,    \* what each pad is linked to: "none" or a Branch topology
    branchCount, \* sinkbins constructed, per payload type
    probe,       \* the idle probe installed on each pad
    probeRuns,   \* invocations of an attach callback, per pad
    branch,      \* the sinkbin built for each pad
    received,    \* ids the demultiplexer pushed to each pad, in order
    delivered,   \* ids handed to each pad's Branch, in order
    discarded,   \* ids the demultiplexer dropped for want of a mapping
    aborted      \* the process was ended by g_error (abort)

vars == << argv, help, badOption, buildOk, options, streamid, mainPc, exitCode,
           pipeline, gstState, loopQuit, busWatch, bus, otherPosted, srcq, srcDone,
           nextId, dpc, cur, portCount, portPeer, branchCount, probe, probeRuns,
           branch, received, delivered, discarded, aborted >>

inputVars == << argv, help, badOption, buildOk >>
mainVars == << options, streamid, mainPc, exitCode, pipeline, gstState, loopQuit,
               busWatch >>
sourceVars == << srcq, srcDone, nextId >>
streamVars == << dpc, cur, portCount, portPeer, branchCount, probe, probeRuns,
                 branch, received, delivered, discarded >>

(* ------------------------------- Init --------------------------------- *)
NoPacket == [pt |-> 0, id |-> 0]
EOS_EVENT == [pt |-> -1, id |-> 0]
NoBranch ==
    [sinkbin |-> "NULL", inPipeline |-> FALSE, gpad |-> FALSE,
     gpadActive |-> FALSE, state |-> "NULL"]

\* what is the same at the start of every run: the statics of lines 55-66 are
\* zero-initialised, nothing is built and no thread is running
InitProgram ==
    /\ streamid = NULL
    /\ mainPc = "parse"
    /\ exitCode = EXIT_OK
    /\ pipeline = "NULL"
    /\ gstState = "NULL"
    /\ loopQuit = FALSE
    /\ busWatch = FALSE
    /\ bus = << >>
    /\ otherPosted = 0
    /\ srcq = << >>
    /\ srcDone = FALSE
    /\ nextId = 1
    /\ dpc = "idle"
    /\ cur = NoPacket
    /\ portCount = [pt \in PayloadTypes |-> 0]
    /\ portPeer = [pt \in PayloadTypes |-> "none"]
    /\ branchCount = [pt \in PayloadTypes |-> 0]
    /\ probe = [pt \in PayloadTypes |-> "none"]
    /\ probeRuns = [pt \in PayloadTypes |-> 0]
    /\ branch = [pt \in PayloadTypes |-> NoBranch]
    /\ received = [pt \in PayloadTypes |-> << >>]
    /\ delivered = [pt \in PayloadTypes |-> << >>]
    /\ discarded = << >>
    /\ aborted = FALSE

\* the command line and the environment of one run; --user is given or not
\* (StreamIdSpec ranges over both identity fields)
Init ==
    /\ argv \in SeqsUpTo(PositionalValues, MaxArgs)
    /\ help \in BOOLEAN
    /\ badOption \in BOOLEAN
    /\ buildOk \in BOOLEAN
    /\ options \in [uri : {NULL},
                    user : {NULL, Some(<< "a" >>)},
                    resource : {NULL}]
    /\ InitProgram

(* ---------------------------- main thread ----------------------------- *)
\* line 305-309: g_option_context_parse, which calls _parse_rest_arg_cb
ParseArgs ==
    /\ ~aborted
    /\ mainPc = "parse"
    /\ LET r == g_option_context_parse(options.uri, argv, badOption)
       IN  /\ options' = [options EXCEPT !.uri = r.uri]
           /\ IF r.ok
              THEN mainPc' = "check" /\ exitCode' = exitCode
              ELSE mainPc' = "exited" /\ exitCode' = EXIT_FAILURE_CODE
    /\ UNCHANGED << inputVars, streamid, pipeline, gstState, loopQuit, busWatch,
                    bus, otherPosted, sourceVars, streamVars, aborted >>

\* line 311-315
CheckArgs ==
    /\ ~aborted
    /\ mainPc = "check"
    /\ IF NeedsUsage(help, options.uri)
       THEN mainPc' = "exited" /\ exitCode' = EXIT_FAILURE_CODE
       ELSE mainPc' = "init" /\ exitCode' = exitCode
    /\ UNCHANGED << inputVars, options, streamid, pipeline, gstState, loopQuit,
                    busWatch, bus, otherPosted, sourceVars, streamVars, aborted >>

\* line 317-322: gst_init, g_main_loop_new, build_streamid
BuildStreamId ==
    /\ ~aborted
    /\ mainPc = "init"
    /\ streamid' = build_streamid(options.user, options.resource)
    /\ mainPc' = "build"
    /\ UNCHANGED << inputVars, options, exitCode, pipeline, gstState, loopQuit,
                    busWatch, bus, otherPosted, sourceVars, streamVars, aborted >>

\* build_recv_pipeline: the pipeline with its bus watch installed, or NULL
build_recv_pipeline(ok) ==
    IF ok THEN [pipeline |-> "built", busWatch |-> TRUE]
    ELSE [pipeline |-> "NULL", busWatch |-> FALSE]

\* faulty variant: main goes on without the NULL test of line 328
BuildRecvPipeline_NoNullCheck ==
    /\ ~aborted
    /\ mainPc = "build"
    /\ LET r == build_recv_pipeline(buildOk)
       IN  /\ pipeline' = r.pipeline
           /\ busWatch' = r.busWatch
    /\ mainPc' = "play"
    /\ UNCHANGED << inputVars, options, streamid, exitCode, gstState, loopQuit, bus,
                    otherPosted, sourceVars, streamVars, aborted >>

\* line 325-332
BuildRecvPipeline ==
    /\ ~aborted
    /\ mainPc = "build"
    /\ LET r == build_recv_pipeline(buildOk)
       IN  /\ pipeline' = r.pipeline
           /\ busWatch' = r.busWatch
           /\ IF r.pipeline = "NULL"
              THEN mainPc' = "exited" /\ exitCode' = EXIT_FAILURE_CODE
              ELSE mainPc' = "play" /\ exitCode' = exitCode
    /\ UNCHANGED << inputVars, options, streamid, gstState, loopQuit, bus,
                    otherPosted, sourceVars, streamVars, aborted >>

\* line 334: gst_element_set_state (app.pipeline, GST_STATE_PLAYING)
SetPlaying ==
    /\ ~aborted
    /\ mainPc = "play"
    /\ gstState' = "PLAYING"
    /\ mainPc' = "loop"
    /\ UNCHANGED << inputVars, options, streamid, exitCode, pipeline, loopQuit,
                    busWatch, bus, otherPosted, sourceVars, streamVars, aborted >>

\* line 336, one dispatch of the bus source inside g_main_loop_run: the oldest
\* message goes to _bus_watch; the loop dispatches nothing once it was quit
BusDispatch ==
    /\ ~aborted
    /\ mainPc = "loop"
    /\ ~loopQuit
    /\ busWatch
    /\ bus # << >>
    /\ LET r == _bus_watch(Head(bus))
       IN  /\ loopQuit' = r.quit
           /\ busWatch' = (r.ret = "G_SOURCE_CONTINUE")
    /\ bus' = Tail(bus)
    /\ UNCHANGED << inputVars, options, streamid, mainPc, exitCode, pipeline,
                    gstState, otherPosted, sourceVars, streamVars, aborted >>

\* line 336: g_main_loop_run returns once the loop was quit
LoopReturn ==
    /\ ~aborted
    /\ mainPc = "loop"
    /\ loopQuit
    /\ mainPc' = "teardown"
    /\ UNCHANGED << inputVars, options, streamid, exitCode, pipeline, gstState,
                    loopQuit, busWatch, bus, otherPosted, sourceVars, streamVars,
                    aborted >>

\* the streaming thread is between two chain calls, or has ended
StreamingQuiescent == dpc \in {"idle", "eos"}

\* faulty variant: the pipeline is released without being set to NULL first
Teardown_WithoutStateNull ==
    /\ ~aborted
    /\ mainPc = "teardown"
    /\ pipeline' = "released"
    /\ mainPc' = "return"
    /\ UNCHANGED << inputVars, options, streamid, exitCode, gstState, loopQuit,
                    busWatch, bus, otherPosted, sourceVars, streamVars, aborted >>

\* line 338-341: gst_element_set_state (app.pipeline, GST_STATE_NULL) stops the
\* streaming thread (it waits for the chain call in progress) and takes every
\* element of the pipeline, the attached sinkbins included, to NULL; then the
\* pipeline is released
Teardown ==
    /\ ~aborted
    /\ mainPc = "teardown"
    /\ StreamingQuiescent
    /\ gstState' = "NULL"
    /\ dpc' = "stopped"
    /\ branch' = [pt \in PayloadTypes |->
                    IF branch[pt].inPipeline
                    THEN [branch[pt] EXCEPT !.state = "NULL", !.gpadActive = FALSE]
                    ELSE branch[pt]]
    /\ pipeline' = "released"
    /\ busWatch' = FALSE
    /\ mainPc' = "return"
    /\ UNCHANGED << inputVars, options, streamid, exitCode, loopQuit, bus,
                    otherPosted, sourceVars, cur, portCount, portPeer, branchCount,
                    probe, probeRuns, received, delivered, discarded, aborted >>

\* line 343
Exit ==
    /\ ~aborted
    /\ mainPc = "return"
    /\ mainPc' = "exited"
    /\ exitCode' = EXIT_OK
    /\ UNCHANGED << inputVars, options, streamid, pipeline, gstState, loopQuit,
                    busWatch, bus, otherPosted, sourceVars, streamVars, aborted >>


(* ------------------------- source and its queue ----------------------- *)
Running == gstState = "PLAYING" /\ ~aborted

\* srtsrc hands one more packet, of any payload type, to the queue
SrcPush ==
    /\ Running
    /\ ~srcDone
    /\ nextId <= MaxPackets
    /\ Len(srcq) < MaxQueue
    /\ \E pt \in PayloadTypes :
          srcq' = Append(srcq, [pt |-> pt, id |-> nextId])
    /\ nextId' = nextId + 1
    /\ UNCHANGED << inputVars, mainVars, bus, otherPosted, srcDone, streamVars,
                    aborted >>

\* the stream ends: the end-of-stream event travels behind the queued packets
SrcEos ==
    /\ Running
    /\ ~srcDone
    /\ Len(srcq) < MaxQueue
    /\ srcq' = Append(srcq, EOS_EVENT)
    /\ srcDone' = TRUE
    /\ UNCHANGED << inputVars, mainVars, bus, otherPosted, nextId, streamVars,
                    aborted >>

\* the transport fails: srtsrc posts an error on the bus, sends end-of-stream
\* downstream and stops; what it queued before is still in the queue
SrcError ==
    /\ Running
    /\ ~srcDone
    /\ Len(srcq) < MaxQueue
    /\ bus' = Append(bus, "ERROR")
    /\ srcq' = Append(srcq, EOS_EVENT)
    /\ srcDone' = TRUE
    /\ UNCHANGED << inputVars, mainVars, otherPosted, nextId, streamVars,
                    aborted >>

\* an element posts a message that is neither end-of-stream nor error
PostOther ==
    /\ ~aborted
    /\ pipeline = "built"
    /\ otherPosted < MaxOther
    /\ bus' = Append(bus, "OTHER")
    /\ otherPosted' = otherPosted + 1
    /\ UNCHANGED << inputVars, mainVars, sourceVars, streamVars, aborted >>

(* ------------------- streaming thread: the demultiplexer --------------- *)
\* the queue's thread takes the oldest packet and enters the chain function
DemuxTake ==
    /\ Running
    /\ dpc = "idle"
    /\ srcq # << >>
    /\ Head(srcq) # EOS_EVENT
    /\ cur' = Head(srcq)
    /\ srcq' = Tail(srcq)
    /\ dpc' = "chain"
    /\ UNCHANGED << inputVars, mainVars, bus, otherPosted, srcDone, nextId,
                    portCount, portPeer, branchCount, probe, probeRuns, branch,
                    received, delivered, discarded, aborted >>

\* the end-of-stream event reaches the demultiplexer: end-of-stream is
\* reported on the bus and the streaming thread has nothing more to do
DemuxEos ==
    /\ Running
    /\ dpc = "idle"
    /\ srcq # << >>
    /\ Head(srcq) = EOS_EVENT
    /\ srcq' = Tail(srcq)
    /\ bus' = Append(bus, "EOS")
    /\ dpc' = "eos"
    /\ UNCHANGED << inputVars, mainVars, otherPosted, srcDone, nextId, cur,
                    portCount, portPeer, branchCount, probe, probeRuns, branch,
                    received, delivered, discarded, aborted >>

\* a payload type seen before goes to its pad
DemuxKnown ==
    /\ Running
    /\ dpc = "chain"
    /\ portCount[cur.pt] > 0
    /\ dpc' = "push"
    /\ UNCHANGED << inputVars, mainVars, bus, otherPosted, sourceVars, cur,
                    portCount, portPeer, branchCount, probe, probeRuns, branch,
                    received, delivered, discarded, aborted >>

\* a payload type not seen before: the demultiplexer asks for its caps
\* (request-pt-map, line 272) and, given caps, creates the pad
DemuxResolved ==
    /\ Running
    /\ dpc = "chain"
    /\ portCount[cur.pt] = 0
    /\ ~IsNull(_request_pt_map_cb(cur.pt))
    /\ portCount' = [portCount EXCEPT ![cur.pt] = @ + 1]
    /\ dpc' = "signal"
    /\ UNCHANGED << inputVars, mainVars, bus, otherPosted, sourceVars, cur,
                    portPeer, branchCount, probe, probeRuns, branch, received,
                    delivered, discarded, aborted >>

\* no caps: the packet is discarded, no pad is created, nothing is signalled
DemuxUnresolved ==
    /\ Running
    /\ dpc = "chain"
    /\ portCount[cur.pt] = 0
    /\ IsNull(_request_pt_map_cb(cur.pt))
    /\ discarded' = Append(discarded, cur.id)
    /\ dpc' = "idle"
    /\ UNCHANGED << inputVars, mainVars, bus, otherPosted, sourceVars, cur,
                    portCount, portPeer, branchCount, probe, probeRuns, branch,
                    received, delivered, aborted >>

\* faulty variant: the probe is installed but its callback does not run before
\* the chain function goes on to push the packet
NewPayloadType_Deferred ==
    /\ Running
    /\ dpc = "signal"
    /\ probe' = [probe EXCEPT ![cur.pt] = _new_payload_type_cb(cur.pt)]
    /\ dpc' = "push"
    /\ UNCHANGED << inputVars, mainVars, bus, otherPosted, sourceVars, cur,
                    portCount, portPeer, branchCount, probeRuns, branch, received,
                    delivered, discarded, aborted >>

\* new-payload-type (line 271) runs _new_payload_type_cb, which installs an
\* idle probe on the new pad for the types it names
NewPayloadType ==
    /\ Running
    /\ dpc = "signal"
    /\ LET cb == _new_payload_type_cb(cur.pt)
       IN  /\ probe' = [probe EXCEPT ![cur.pt] = cb]
           /\ dpc' = IF cb = "none" THEN "push" ELSE "probe"
    /\ UNCHANGED << inputVars, mainVars, bus, otherPosted, sourceVars, cur,
                    portCount, portPeer, branchCount, probeRuns, branch, received,
                    delivered, discarded, aborted >>

\* the pad is idle (nothing is being pushed through it) and holds an idle
\* probe: the probe's callback runs on this thread, and while it runs
\* nothing is pushed through the pad
IdleProbeFire ==
    /\ Running
    /\ dpc = "probe"
    /\ probe[cur.pt] # "none"
    /\ probeRuns' = [probeRuns EXCEPT ![cur.pt] = @ + 1]
    /\ dpc' = IF probe[cur.pt] = "_link_cb" THEN "v_construct" ELSE "g_construct"
    /\ UNCHANGED << inputVars, mainVars, bus, otherPosted, sourceVars, cur,
                    portCount, portPeer, branchCount, probe, branch, received,
                    delivered, discarded, aborted >>

\* the packet in hand was already pushed through its pad
Pushed == \E i \in DOMAIN received[cur.pt] : received[cur.pt][i] = cur.id

\* the demultiplexer pushes the packet through the pad; it reaches the Branch
\* the pad is linked to, and is lost when the pad is linked to nothing. The
\* pad is idle again after the push, so an idle probe still installed fires
DemuxPush ==
    /\ Running
    /\ dpc = "push"
    /\ received' = [received EXCEPT ![cur.pt] = Append(@, cur.id)]
    /\ delivered' = IF portPeer[cur.pt] # "none"
                    THEN [delivered EXCEPT ![cur.pt] = Append(@, cur.id)]
                    ELSE delivered
    /\ dpc' = IF probe[cur.pt] # "none" THEN "probe" ELSE "idle"
    /\ UNCHANGED << inputVars, mainVars, bus, otherPosted, sourceVars, cur,
                    portCount, portPeer, branchCount, probe, probeRuns, branch,
                    discarded, aborted >>


(* ------------------ streaming thread: the attach callbacks ------------- *)
\* the pipeline description each callback hands to gst_parse_launch
LinkCbTopology == "video"
LinkGstdepayCbTopology == "appdata"
\* faulty variant: _link_cb keeps its probe on the pad
LinkCbReturn_Keep == "GST_PAD_PROBE_OK"
\* what each callback returns to the probe machinery
LinkCbReturn == "GST_PAD_PROBE_REMOVE"
LinkGstdepayCbReturn == "GST_PAD_PROBE_REMOVE"

streamFrame == << inputVars, mainVars, bus, otherPosted, sourceVars, cur,
                  portCount, probeRuns, received, delivered, discarded >>

\* gst_parse_launch inside a callback: a new sinkbin, or NULL
Construct(topology, next) ==
    /\ \E ok \in BOOLEAN :
          /\ branch' = [branch EXCEPT ![cur.pt] =
                          [NoBranch EXCEPT !.sinkbin = IF ok THEN topology ELSE "NULL"]]
          /\ branchCount' = [branchCount EXCEPT ![cur.pt] = IF ok THEN @ + 1 ELSE @]
    /\ dpc' = next
    /\ UNCHANGED << streamFrame, portPeer, probe, aborted >>

\* faulty variant: the sinkbin is never added to the pipeline
BinAdd_Skipped(next) ==
    /\ dpc' = next
    /\ UNCHANGED << streamFrame, portPeer, branchCount, probe, branch, aborted >>

\* gst_bin_add (GST_BIN (pipeline), sinkbin): nothing is added when sinkbin is NULL
BinAdd(next) ==
    /\ branch' = [branch EXCEPT ![cur.pt].inPipeline = (branch[cur.pt].sinkbin # "NULL")]
    /\ dpc' = next
    /\ UNCHANGED << streamFrame, portPeer, branchCount, probe, aborted >>

\* gst_bin_get_by_name, gst_element_get_static_pad, gst_ghost_pad_new,
\* gst_element_add_pad: the sinkbin gets its ghost sink pad
GhostPad(next) ==
    /\ branch' = [branch EXCEPT ![cur.pt].gpad = (branch[cur.pt].sinkbin # "NULL")]
    /\ dpc' = next
    /\ UNCHANGED << streamFrame, portPeer, branchCount, probe, aborted >>

\* gst_pad_set_active (gpad, TRUE)
SetActive(next) ==
    /\ branch' = [branch EXCEPT ![cur.pt].gpadActive = branch[cur.pt].gpad]
    /\ dpc' = next
    /\ UNCHANGED << streamFrame, portPeer, branchCount, probe, aborted >>

\* faulty variant: the sinkbin is left in the state it was created in
SyncState_Skipped(next) ==
    /\ dpc' = next
    /\ UNCHANGED << streamFrame, portPeer, branchCount, probe, branch, aborted >>

\* gst_element_sync_state_with_parent (sinkbin): the sinkbin takes the state
\* its parent, the pipeline, is in
SyncState(next) ==
    /\ branch' = [branch EXCEPT ![cur.pt].state =
                    IF branch[cur.pt].inPipeline THEN gstState ELSE @]
    /\ dpc' = next
    /\ UNCHANGED << streamFrame, portPeer, branchCount, probe, aborted >>

\* gst_pad_link (pad, gpad) can succeed only for an existing ghost pad and a
\* pad that is not linked yet
CanLink == branch[cur.pt].gpad /\ portPeer[cur.pt] = "none"

\* the callback returns: GST_PAD_PROBE_REMOVE takes the probe off the pad, and
\* the chain function goes on where the probe fired
ProbeReturn(ret) ==
    /\ probe' = [probe EXCEPT ![cur.pt] =
                    IF ret = "GST_PAD_PROBE_REMOVE" THEN "none" ELSE @]
    /\ dpc' = IF Pushed THEN "idle" ELSE "push"
    /\ UNCHANGED << streamFrame, portPeer, branchCount, branch, aborted >>

\* _link_cb, line 171-174
V_Construct == Running /\ dpc = "v_construct" /\ Construct(LinkCbTopology, "v_add")
\* line 176
V_Add == Running /\ dpc = "v_add" /\ BinAdd("v_ghost")
\* line 178-182
V_Ghost == Running /\ dpc = "v_ghost" /\ GhostPad("v_link")
\* line 185: the link succeeds
V_LinkOk ==
    /\ Running
    /\ dpc = "v_link"
    /\ CanLink
    /\ portPeer' = [portPeer EXCEPT ![cur.pt] = branch[cur.pt].sinkbin]
    /\ dpc' = "v_activate"
    /\ UNCHANGED << streamFrame, branchCount, probe, branch, aborted >>
\* line 185-187: the link fails and g_error aborts the process
V_LinkFail ==
    /\ Running
    /\ dpc = "v_link"
    /\ aborted' = TRUE
    /\ UNCHANGED << streamFrame, dpc, portPeer, branchCount, probe, branch >>
\* faulty variant: _link_cb without the gst_pad_set_active of line 189
V_Activate_Skipped ==
    /\ Running
    /\ dpc = "v_activate"
    /\ dpc' = "v_sync"
    /\ UNCHANGED << streamFrame, portPeer, branchCount, probe, branch, aborted >>
\* line 189
V_Activate == Running /\ dpc = "v_activate" /\ SetActive("v_sync")
\* line 190
V_Sync == Running /\ dpc = "v_sync" /\ SyncState("v_return")
\* line 192-194
V_Return == Running /\ dpc = "v_return" /\ ProbeReturn(LinkCbReturn)

\* _link_gstdepay_cb, line 210-213
G_Construct ==
    Running /\ dpc = "g_construct" /\ Construct(LinkGstdepayCbTopology, "g_add")
\* line 215
G_Add == Running /\ dpc = "g_add" /\ BinAdd("g_sync")
\* line 217-220
G_Sync == Running /\ dpc = "g_sync" /\ SyncState("g_ghost")
\* line 222-223
G_Ghost == Running /\ dpc = "g_ghost" /\ GhostPad("g_activate")
\* line 225
G_Activate == Running /\ dpc = "g_activate" /\ SetActive("g_link")
\* line 226: the link succeeds
G_LinkOk ==
    /\ Running
    /\ dpc = "g_link"
    /\ CanLink
    /\ portPeer' = [portPeer EXCEPT ![cur.pt] = branch[cur.pt].sinkbin]
    /\ dpc' = "g_return"
    /\ UNCHANGED << streamFrame, branchCount, probe, branch, aborted >>
\* line 226: the link fails; the result is not looked at
G_LinkFail ==
    /\ Running
    /\ dpc = "g_link"
    /\ dpc' = "g_return"
    /\ UNCHANGED << streamFrame, portPeer, branchCount, probe, branch, aborted >>
\* line 228
G_Return == Running /\ dpc = "g_return" /\ ProbeReturn(LinkGstdepayCbReturn)

(* -------------------------- specifications ---------------------------- *)
Main ==
    \/ ParseArgs
    \/ CheckArgs
    \/ BuildStreamId
    \/ BuildRecvPipeline
    \/ SetPlaying
    \/ BusDispatch
    \/ LoopReturn
    \/ Teardown
    \/ Exit

Source ==
    \/ SrcPush
    \/ SrcEos
    \/ SrcError
    \/ PostOther

Streaming ==
    \/ DemuxTake
    \/ DemuxEos
    \/ DemuxKnown
    \/ DemuxResolved
    \/ DemuxUnresolved
    \/ NewPayloadType
    \/ IdleProbeFire
    \/ DemuxPush
    \/ V_Construct
    \/ V_Add
    \/ V_Ghost
    \/ V_LinkOk
    \/ V_LinkFail
    \/ V_Activate
    \/ V_Sync
    \/ V_Return
    \/ G_Construct
    \/ G_Add
    \/ G_Sync
    \/ G_Ghost
    \/ G_Activate
    \/ G_LinkOk
    \/ G_LinkFail
    \/ G_Return

Next == Main \/ Source \/ Streaming

Spec == Init /\ [][Next]_vars

\* the spec-level state of the graph, read off the program's state
GraphState ==
    IF loopQuit THEN "Terminated"
    ELSE IF gstState = "PLAYING" THEN "Playing"
    ELSE "Stopped"

TypeOK ==
    /\ mainPc \in {"parse", "check", "init", "build", "play", "loop", "teardown",
                   "return", "exited"}
    /\ pipeline \in {"NULL", "built", "released"}
    /\ gstState \in {"NULL", "PLAYING"}
    /\ Len(srcq) <= MaxQueue
    /\ nextId <= MaxPackets + 1
    /\ \A pt \in PayloadTypes : portPeer[pt] \in {"none", "video", "appdata"}


(* ----------------------------- properties ----------------------------- *)
MappedTypes == {PT_H264, PT_XGST}
ProcessEnded == aborted \/ mainPc = "exited"
\* the attach callback of pt has run to its end
AttachReturned(pt) == probeRuns[pt] > 0 /\ probe[pt] = "none" /\ ~aborted
\* the Branch of pt is constructed, in the pipeline, linked and activated
BranchReady(pt) ==
    /\ branchCount[pt] = 1
    /\ branch[pt].sinkbin # "NULL"
    /\ branch[pt].inPipeline
    /\ branch[pt].gpad
    /\ branch[pt].gpadActive
    /\ branch[pt].state = "PLAYING"
    /\ portPeer[pt] = branch[pt].sinkbin

\* C1 (as claimed): for every payload type at most one pad and at most one
\* Branch are ever created, and exactly one of each once the type is mapped
\* (96 or 99) and a packet of it was processed while Playing.
C1_OnePortOneBranch ==
    \A pt \in PayloadTypes :
        /\ portCount[pt] <= 1
        /\ branchCount[pt] <= 1
        /\ (pt \in MappedTypes /\ received[pt] # << >>)
              => (portCount[pt] = 1 /\ branchCount[pt] = 1)

\* C2: a packet is handed to a Branch only when that Branch is constructed,
\* added to the pipeline, linked to the pad and activated, and its attach
\* callback has returned; this holds for the pads of 96 and of 99.
C2_AttachBeforeDelivery ==
    [][\A pt \in PayloadTypes :
          delivered'[pt] # delivered[pt]
             => /\ BranchReady(pt)
                /\ AttachReturned(pt)
                /\ portCount[pt] = 1]_vars

C2_Witness ==
    /\ delivered[PT_H264] # << >>
    /\ delivered[PT_XGST] # << >>

C4_AbsorbingAtQuit ==
    [][GraphState = "Terminated"
          => /\ delivered' = delivered
             /\ branchCount' = branchCount
             /\ portPeer' = portPeer
             /\ probeRuns' = probeRuns]_vars

\* C4 (amended): once the teardown of line 338 is done (the loop was quit and
\* the pipeline was set to NULL), no attachment is processed and no packet is
\* delivered to a Branch.
C4_AbsorbingAfterTeardown ==
    [][(GraphState = "Terminated" /\ mainPc \in {"return", "exited"})
          => /\ delivered' = delivered
             /\ received' = received
             /\ branchCount' = branchCount
             /\ portCount' = portCount
             /\ portPeer' = portPeer
             /\ probeRuns' = probeRuns
             /\ dpc' = dpc]_vars

C4_Witness ==
    /\ mainPc = "exited"
    /\ GraphState = "Terminated"
    /\ srcq # << >>
    /\ Head(srcq) # EOS_EVENT
    /\ \E pt \in MappedTypes : delivered[pt] # << >>

\* C5: the graph starts Stopped and only ever goes from Stopped to Playing and
\* from Playing to Terminated; it goes to Playing only with an assembled
\* pipeline; nothing leaves Terminated, whatever is still on the bus.
C5_GraphTransitions ==
    /\ [](mainPc = "parse" => GraphState = "Stopped")
    /\ [](GraphState # "Stopped" => pipeline # "NULL")
    /\ [][GraphState' # GraphState
             => \/ /\ GraphState = "Stopped"
                   /\ GraphState' = "Playing"
                   /\ pipeline = "built"
                \/ /\ GraphState = "Playing"
                   /\ GraphState' = "Terminated"]_vars


C5_Witness ==
    /\ mainPc = "exited"
    /\ GraphState = "Terminated"
    /\ \E i \in DOMAIN bus : bus[i] \in {"EOS", "ERROR"}

\* C6 (as claimed, the part a finite run decides): once the bus watch has seen
\* the first end-of-stream or error while Playing, the only way the process
\* ends is main's return of 0 after the pipeline was set to NULL and released,
\* whichever of the two messages it was.
C6_TerminalLeadsToCleanExit ==
    (loopQuit /\ ProcessEnded)
        => /\ mainPc = "exited"
           /\ exitCode = EXIT_OK
           /\ gstState = "NULL"
           /\ pipeline = "released"

\* C7 (as claimed): when building or linking a Branch fails in either attach
\* callback, an error is signalled on the bus for the Supervisor and the
\* process does not end outside main's teardown; no attach callback returns
\* with its pad unlinked and nothing signalled.
C7_ConstructionFailureSignalled ==
    /\ ~aborted
    /\ \A pt \in MappedTypes :
          (AttachReturned(pt) /\ portPeer[pt] = "none")
              => (loopQuit \/ \E i \in DOMAIN bus : bus[i] = "ERROR")

\* C8 (as claimed): for a mapped payload type whose Branch was built, the
\* packets handed to the Branch are exactly the packets of that type the
\* demultiplexer pushed through the pad, in the same order.
C8_OrderedLosslessDelivery ==
    \A pt \in MappedTypes :
        branchCount[pt] > 0 => delivered[pt] = received[pt]

\* what build_streamid is claimed to return
ExpectedStreamId(user, resource) ==
    CASE IsNull(user) /\ IsNull(resource) -> NULL
      [] ~IsNull(user) /\ IsNull(resource) ->
            Some(<< "#", "!", ":", ":", "u", "=" >> \o Val(user))
      [] IsNull(user) /\ ~IsNull(resource) ->
            Some(<< "#", "!", ":", ":", "r", "=" >> \o Val(resource))
      [] ~IsNull(user) /\ ~IsNull(resource) ->
            Some(<< "#", "!", ":", ":", "u", "=" >> \o Val(user)
                 \o << ",", "r", "=" >> \o Val(resource))

\* C9: build_streamid returns no token when both fields are absent,
\* "#!::u=<user>" for a user alone, "#!::r=<resource>" for a resource alone and
\* "#!::u=<user>,r=<resource>" for both, for every pair of bounded strings.
C9_StreamIdFormat ==
    mainPc = "build" => streamid = ExpectedStreamId(options.user, options.resource)

C9_Witness ==
    /\ mainPc = "build"
    /\ ~IsNull(options.user)
    /\ ~IsNull(options.resource)
    /\ Len(Val(options.user)) = MaxStrLen
    /\ Val(options.resource) = << >>
    /\ Len(Val(streamid)) = MaxStrLen + 9

\* the command lines and environments the claim calls startup errors
HasSrtScheme(v) ==
    /\ Len(v) >= 6
    /\ << v[1], v[2], v[3], v[4], v[5], v[6] >> = << "s", "r", "t", ":", "/", "/" >>
StartupError ==
    \/ argv = << >>
    \/ \E i \in DOMAIN argv : ~HasSrtScheme(argv[i])
    \/ Len(argv) >= 2
    \/ badOption
    \/ help
    \/ ~buildOk

\* C10: with no positional URI, a positional value without the "srt://"
\* prefix, a second positional value, a command line the parser rejects,
\* --help (also next to a valid URI) or a receive pipeline that cannot be
\* assembled, no pipeline is ever held, the graph never plays, and main
\* returns a non-zero code.
C10_StartupErrorsExitNonZero ==
    StartupError
        => /\ pipeline = "NULL"
           /\ gstState = "NULL"
           /\ GraphState = "Stopped"
           /\ mainPc \in {"parse", "check", "init", "build", "exited"}
           /\ (mainPc = "exited" => exitCode # 0)
           /\ ~aborted

C10_Witness ==
    /\ mainPc = "exited"
    /\ help
    /\ ~badOption
    /\ buildOk
    /\ argv = << GoodUri >>
    /\ ~IsNull(options.uri)
    /\ exitCode = EXIT_FAILURE_CODE

\* C11 (as claimed): in both attach callbacks the step that synchronizes the
\* Branch's state with the pipeline comes after the Branch was linked to the
\* pad.
C11_SyncAfterLink ==
    [][(dpc \in {"v_sync", "g_sync"} /\ dpc' # dpc)
          => portPeer[cur.pt] # "none"]_vars

\* C11 (amended): both attach callbacks synchronize the Branch with the
\* pipeline before they return, _link_cb after the link; a Branch whose
\* callback has returned is in the pipeline's state, a packet is handed only
\* to a Branch that is PLAYING in a pipeline that is PLAYING, and a Branch that
\* is not PLAYING is handed nothing.
C11_SyncBeforeDelivery ==
    /\ [][(dpc = "v_sync" /\ dpc' # dpc)
             => portPeer[cur.pt] = LinkCbTopology]_vars
    /\ [](\A pt \in MappedTypes :
              (AttachReturned(pt) /\ branch[pt].inPipeline)
                  => branch[pt].state = gstState)
    /\ [][\A pt \in PayloadTypes :
              delivered'[pt] # delivered[pt]
                 => /\ branch[pt].state = "PLAYING"
                    /\ gstState = "PLAYING"]_vars

C11_Witness ==
    /\ \A pt \in MappedTypes :
          /\ branch[pt].state = "PLAYING"
          /\ Len(delivered[pt]) >= 1
    /\ gstState = "PLAYING"

\* a step of the code the demultiplexer calls back: the resolver (inside
\* DemuxResolved / DemuxUnresolved), the new-payload-type handler and the two
\* attach callbacks
CallbackStep ==
    \/ DemuxResolved
    \/ DemuxUnresolved
    \/ NewPayloadType
    \/ IdleProbeFire
    \/ V_Construct \/ V_Add \/ V_Ghost \/ V_LinkOk \/ V_LinkFail
    \/ V_Activate \/ V_Sync \/ V_Return
    \/ G_Construct \/ G_Add \/ G_Sync \/ G_Ghost \/ G_Activate
    \/ G_LinkOk \/ G_LinkFail \/ G_Return

\* C12 (as claimed): no step of the resolver, of the new-payload-type handler
\* or of an attach callback changes the GraphState or ends the process; only
\* main and its bus watch do.
C12_OnlySupervisorEnds ==
    [][CallbackStep
          => /\ GraphState' = GraphState
             /\ ProcessEnded' = ProcessEnded
             /\ gstState' = gstState
             /\ loopQuit' = loopQuit]_vars

\* the streaming thread is inside an attach callback, or about to enter it
AttachPcs ==
    {"probe", "v_construct", "v_add", "v_ghost", "v_link", "v_activate", "v_sync",
     "v_return", "g_construct", "g_add", "g_sync", "g_ghost", "g_activate",
     "g_link", "g_return"}
\* a packet of another type, whose Branch is attached, waits at the head of
\* the queue while the attach callback of cur.pt runs
OtherPortWaiting ==
    /\ gstState = "PLAYING"
    /\ ~aborted
    /\ dpc \in AttachPcs
    /\ srcq # << >>
    /\ Head(srcq).pt \in MappedTypes
    /\ Head(srcq).pt # cur.pt
    /\ BranchReady(Head(srcq).pt)
    /\ AttachReturned(Head(srcq).pt)

\* C13 (as claimed): while the Branch of one payload type is being attached,
\* a queued packet of another type whose Branch is already attached can be
\* taken up by the demultiplexer for delivery.
C13_OtherPortRunsDuringAttach ==
    OtherPortWaiting => ENABLED DemuxTake

\* C13 (amended): the attach callback runs on the one streaming thread,
\* inside the chain call of the packet that created the pad: from the moment
\* the idle probe is installed until the callback has returned, no packet
\* leaves the queue and none is pushed through or delivered by any pad.
C13_AttachSerializesDelivery ==
    /\ [][(\E pt \in PayloadTypes : received'[pt] # received[pt])
             => \A q \in PayloadTypes : probe[q] = "none"]_vars
    /\ [][(dpc \in AttachPcs)
             => (delivered' = delivered /\ received' = received
                 /\ Len(srcq) <= Len(srcq'))]_vars
    /\ [](\A q \in PayloadTypes :
              probe[q] # "none" => (dpc \in AttachPcs /\ cur.pt = q))

C13_Witness ==
    /\ OtherPortWaiting
    /\ dpc \in {"v_link", "g_link"}
    /\ delivered[Head(srcq).pt] # << >>

\* the Branch topology each mapped payload type is to get
TopologyOf(pt) == IF pt = PT_H264 THEN "video" ELSE "appdata"

\* C14 (as claimed): once packets of both 96 and 99 were processed, exactly
\* two Branches exist, one per type; a Branch is created during the chain call
\* of the first packet of its type, after the attach of every type observed
\* earlier has finished (creation order is observation order); and a packet
\* is handed only to the Branch of its own type.
C14_TwoBranchesOwnPackets ==
    /\ []((received[PT_H264] # << >> /\ received[PT_XGST] # << >>)
            => (branchCount[PT_H264] = 1 /\ branchCount[PT_XGST] = 1))
    /\ [][\A pt \in MappedTypes :
              branchCount'[pt] # branchCount[pt]
                 => /\ cur.pt = pt
                    /\ received[pt] = << >>
                    /\ \A q \in MappedTypes \ {pt} :
                          /\ portCount[q] > 0 => probeRuns[q] = 1 /\ probe[q] = "none"
                          /\ portCount[q] = 0 => branchCount[q] = 0]_vars
    /\ [][\A pt \in MappedTypes :
              delivered'[pt] # delivered[pt]
                 => /\ cur.pt = pt
                    /\ delivered'[pt] = Append(delivered[pt], cur.id)
                    /\ portPeer[pt] = TopologyOf(pt)]_vars
    /\ [](\A i \in DOMAIN delivered[PT_H264], j \in DOMAIN delivered[PT_XGST] :
              delivered[PT_H264][i] # delivered[PT_XGST][j])

\* C15: a pad is linked only to a Branch that is already in the pipeline, and
\* only once; a link is never undone and a Branch never leaves the pipeline;
\* a Branch that is PLAYING leaves that state only in main's teardown, after
\* the loop was quit, in the step that sets the pipeline to NULL and releases
\* it.
C15_MonotonicAttachment ==
    /\ [][\A pt \in PayloadTypes :
              portPeer'[pt] # portPeer[pt]
                 => /\ portPeer[pt] = "none"
                    /\ branch[pt].inPipeline
                    /\ portPeer'[pt] = branch[pt].sinkbin]_vars
    /\ [][\A pt \in PayloadTypes :
              branch[pt].inPipeline
                 => /\ branch'[pt].inPipeline
                    /\ branch'[pt].sinkbin = branch[pt].sinkbin]_vars
    /\ [][\A pt \in PayloadTypes :
              (branch[pt].state = "PLAYING" /\ branch'[pt].state # "PLAYING")
                 => /\ mainPc = "teardown"
                    /\ loopQuit
                    /\ mainPc' = "return"
                    /\ gstState' = "NULL"
                    /\ pipeline' = "released"]_vars
    /\ [](\A pt \in PayloadTypes :
              portPeer[pt] # "none" => branch[pt].inPipeline)

C15_Witness ==
    /\ mainPc = "exited"
    /\ \A pt \in MappedTypes :
          /\ portPeer[pt] = TopologyOf(pt)
          /\ branch[pt].inPipeline
          /\ branch[pt].state = "NULL"
          /\ delivered[pt] # << >>
    /\ pipeline = "released"

\* C16 (as claimed): the resolver returns caps for exactly the payload types
\* the new-payload-type handler installs an attach callback for, 96 and 99;
\* and no pad has packets pushed through it while it is linked to no Branch.
C16_EveryPortGetsBranch ==
    /\ \A pt \in PayloadTypes :
          /\ ~IsNull(_request_pt_map_cb(pt)) <=> _new_payload_type_cb(pt) # "none"
          /\ ~IsNull(_request_pt_map_cb(pt)) <=> pt \in {PT_H264, PT_XGST}
    /\ \A pt \in PayloadTypes :
          (portCount[pt] > 0 /\ received[pt] # << >>) => portPeer[pt] # "none"

\* C17: the pad of 96 is only ever linked to the video sub-graph and the pad
\* of 99 only to the application-data sub-graph, and the sinkbin built for a
\* pad is of that pad's kind, whichever type was observed first.
C17_TopologyByPayloadType ==
    \A pt \in PayloadTypes :
        IF pt \in MappedTypes
        THEN /\ portPeer[pt] \in {"none", TopologyOf(pt)}
             /\ branch[pt].sinkbin \in {"NULL", TopologyOf(pt)}
        ELSE /\ portPeer[pt] = "none"
             /\ branch[pt].sinkbin = "NULL"

C17_Witness ==
    /\ portPeer[PT_H264] = "video"
    /\ portPeer[PT_XGST] = "appdata"
    /\ delivered[PT_H264] # << >>
    /\ delivered[PT_XGST] # << >>
    /\ delivered[PT_XGST][1] < delivered[PT_H264][1]

\* C18: an attach callback is invoked at most once per pad and builds at most
\* one sinkbin; when it has returned its probe is off the pad, so the pad
\* being idle again after a later packet starts no second construction and
\* no second link.
C18_AttachRunsOnce ==
    /\ [](\A pt \in PayloadTypes :
              /\ probeRuns[pt] <= 1
              /\ branchCount[pt] <= probeRuns[pt])
    /\ [][\A pt \in PayloadTypes :
              probeRuns'[pt] # probeRuns[pt]
                 => (probeRuns[pt] = 0 /\ received[pt] = << >>)]_vars
    /\ [][(dpc \in {"v_return", "g_return"} /\ dpc' # dpc)
             => probe'[cur.pt] = "none"]_vars
    /\ [][(dpc = "push" /\ dpc' # dpc) => dpc' = "idle"]_vars

C18_Witness ==
    /\ dpc = "idle"
    /\ \E pt \in MappedTypes :
          /\ probeRuns[pt] = 1
          /\ probe[pt] = "none"
          /\ Len(delivered[pt]) >= 2

\* the loop hands the oldest bus message to _bus_watch in this step
Dispatched == bus # << >> /\ bus' = Tail(bus)

\* C19: dispatching a message that is neither end-of-stream nor error changes
\* nothing of main's state (the loop is not quit, the pipeline stays PLAYING);
\* the watch is still installed after every message, and for as long as the
\* loop runs; a terminal message dispatched later quits the loop.
C19_NonTerminalMessagesIgnored ==
    /\ [][(Dispatched /\ Head(bus) \notin {"EOS", "ERROR"})
             => /\ UNCHANGED << mainVars, streamVars, sourceVars, aborted >>
                /\ ~loopQuit'
                /\ GraphState' = "Playing"]_vars
    /\ [][Dispatched => busWatch']_vars
    /\ [][(Dispatched /\ Head(bus) \in {"EOS", "ERROR"}) => loopQuit']_vars
    /\ [](mainPc = "loop" => busWatch)

C19_Witness ==
    /\ loopQuit
    /\ busWatch
    /\ otherPosted >= 1
    /\ \A i \in DOMAIN bus : bus[i] # "OTHER"

(* --------------- build_streamid over bounded strings ------------------ *)
StreamIdChars == {"a", ","}
StreamIdInputs == {NULL} \cup { Some(x) : x \in SeqsUpTo(StreamIdChars, MaxStrLen) }

\* a valid command line whose --user and --resource range over the bounded
\* strings; main runs up to and including the call of build_streamid
StreamIdInit ==
    /\ argv = << GoodUri >>
    /\ help = FALSE
    /\ badOption = FALSE
    /\ buildOk = TRUE
    /\ options \in [uri : {NULL}, user : StreamIdInputs, resource : StreamIdInputs]
    /\ InitProgram

StreamIdNext ==
    \/ ParseArgs
    \/ CheckArgs
    \/ BuildStreamId

StreamIdSpec == StreamIdInit /\ [][StreamIdNext]_vars

=============================================================================
